---- MODULE Spec2Model ----
(***************************************************************************)
(* Model of src/wormhole.py: WormholeVisualizer, its frame loop run(), the *)
(* event handler handle_events() and the layer renderer                   *)
(* draw_wormhole_layer() with the geometry generator get_shape_points().  *)
(*                                                                         *)
(* Decimal quantities of the source are kept exactly, as integers in      *)
(* fixed-point units:                                                      *)
(*   time_offset ........................ hundredths   (0.02  -> 2)        *)
(*   base_hue, hue, sine, brightness .... thousandths  (0.33  -> 330)      *)
(*   layer_speeds, layer_rotations, angles  tenths of a degree (0.5 -> 5)  *)
(*   radius, corner distances ........... thousandths of a pixel           *)
(*   center_x, center_y ................. hundredths of a pixel            *)
(* math.sin takes its argument in hundredths of a radian and is computed  *)
(* by Bhaskara's rational formula with pi = 3.14 (absolute error below    *)
(* 0.002 on one period); its values lie in [-1, 1] as those of math.sin.  *)
(* A colour is kept as the HSV triple handed to colorsys.hsv_to_rgb.      *)
(***************************************************************************)
EXTENDS Integers, Sequences, FiniteSets, TLC

\* ---------------------------------------------------------------- bounds
MaxFrames == 26
MaxBatch == 2
MaxLayerArg == 31
MaxUnitFrames == 3
MaxFairFrames == 3

\* ------------------------------------------------------------- constants
WINDOW_SIZE == 400
FPS == 60
NUM_LAYERS == 30
MAX_RADIUS == 300

shapes == <<"circle", "square", "triangle", "hexagon", "octagon", "star">>

\* event.pos values delivered by MOUSEMOTION events
MousePositions == {<<0, 399>>}

NoKey == "none"
NoPos == <<0, 0>>

KeyEvent(k) == [type |-> "KEYDOWN", key |-> k, pos |-> NoPos]

Events ==
    {[type |-> "QUIT", key |-> NoKey, pos |-> NoPos]}
    \cup {KeyEvent(k) : k \in {"K_SPACE", "K_r", "K_g", "K_b", "K_a"}}
    \cup {[type |-> "MOUSEMOTION", key |-> NoKey, pos |-> p] : p \in MousePositions}
    \cup {[type |-> "KEYUP", key |-> "K_SPACE", pos |-> NoPos]}

\* the lists pygame.event.get() can return
Batches == UNION {[1..n -> Events] : n \in 0..MaxBatch}

VARIABLES
    current_shape,    \* self.current_shape, 0-based index into shapes
    base_hue,         \* self.base_hue
    time_offset,      \* self.time_offset
    mouse_x,          \* self.mouse_x
    mouse_y,          \* self.mouse_y
    layer_speeds,     \* self.layer_speeds
    layer_rotations,  \* self.layer_rotations
    running,          \* local of run()
    pc,               \* position in run()
    polled,           \* the list pygame.event.get() returned in this frame
    frame,            \* number of frames started
    visited,          \* layer indices passed to draw_wormhole_layer since the last clear
    draw_calls,       \* pygame.draw calls on the screen since the last clear
    todo,             \* layers the for loop of run() has yet to pass
    last_radius,      \* radius computed by the last draw_wormhole_layer call
    last_draw,        \* the last pygame.draw call, with all its arguments
    flips,            \* number of pygame.display.flip() calls
    raised            \* exception that left run(), "none" if none

fields == <<current_shape, base_hue, time_offset, mouse_x, mouse_y,
            layer_speeds, layer_rotations>>

vars == <<current_shape, base_hue, time_offset, mouse_x, mouse_y,
          layer_speeds, layer_rotations, running, pc, polled, frame,
          visited, draw_calls, todo, last_radius, last_draw, flips, raised>>

\* ------------------------------------------------------------- __init__
NoDraw == [kind |-> "none", layer |-> 0, hue |-> 0, value |-> 0,
           center |-> <<0, 0>>, radius |-> 0, points |-> <<>>, width |-> 0]

LayerSpeed(i) == i * 5

InitFields ==
    /\ current_shape = 0
    /\ base_hue = 500
    /\ time_offset = 0
    /\ mouse_x = WINDOW_SIZE \div 2
    /\ mouse_y = WINDOW_SIZE \div 2
    /\ layer_speeds = [i \in 0..(NUM_LAYERS - 1) |-> LayerSpeed(i)]
    /\ layer_rotations = [i \in 0..(NUM_LAYERS - 1) |-> 0]

InitRecorders ==
    /\ polled = <<>>
    /\ frame = 0
    /\ visited = <<>>
    /\ draw_calls = <<>>
    /\ todo = <<>>
    /\ last_radius = 0
    /\ last_draw = NoDraw
    /\ flips = 0
    /\ raised = "none"

Init ==
    /\ InitFields
    /\ InitRecorders
    /\ running = TRUE
    /\ pc = "poll"

\* ------------------------------------------------------- handle_events
\* the modulus one short of the number of shapes
NextShape_short(cs) == (cs + 1) % (Len(shapes) - 1)

NextShape(cs) == (cs + 1) % Len(shapes)

\* the next-shape branch falls through into the red preset
Dispatch_fallthrough(st, event) ==
    IF event.type = "KEYDOWN" THEN
        IF event.key = "K_SPACE" THEN
            [st EXCEPT !.current_shape = (st.current_shape + 1) % Len(shapes),
                       !.base_hue = 0]
        ELSE IF event.key = "K_r" THEN [st EXCEPT !.base_hue = 0]
        ELSE IF event.key = "K_g" THEN [st EXCEPT !.base_hue = 330]
        ELSE IF event.key = "K_b" THEN [st EXCEPT !.base_hue = 660]
        ELSE st
    ELSE IF event.type = "MOUSEMOTION" THEN
        [st EXCEPT !.mouse_x = event.pos[1], !.mouse_y = event.pos[2]]
    ELSE st

\* one pass of the body of the for loop, for an event that is not QUIT
Dispatch(st, event) ==
    IF event.type = "KEYDOWN" THEN
        IF event.key = "K_SPACE" THEN
            [st EXCEPT !.current_shape = NextShape(st.current_shape)]
        ELSE IF event.key = "K_r" THEN [st EXCEPT !.base_hue = 0]
        ELSE IF event.key = "K_g" THEN [st EXCEPT !.base_hue = 330]
        ELSE IF event.key = "K_b" THEN [st EXCEPT !.base_hue = 660]
        ELSE st
    ELSE IF event.type = "MOUSEMOTION" THEN
        [st EXCEPT !.mouse_x = event.pos[1], !.mouse_y = event.pos[2]]
    ELSE st

\* `return True` indented into the for loop: only the first event is handled
handle_events_first(st, evs) ==
    IF evs = <<>> THEN [st EXCEPT !.ret = TRUE]
    ELSE IF Head(evs).type = "QUIT" THEN [st EXCEPT !.ret = FALSE]
    ELSE [Dispatch(st, Head(evs)) EXCEPT !.ret = TRUE]

RECURSIVE handle_events(_, _)
handle_events(st, evs) ==
    IF evs = <<>> THEN [st EXCEPT !.ret = TRUE]
    ELSE IF Head(evs).type = "QUIT" THEN [st EXCEPT !.ret = FALSE]
    ELSE handle_events(Dispatch(st, Head(evs)), Tail(evs))

InputState ==
    [current_shape |-> current_shape, base_hue |-> base_hue,
     mouse_x |-> mouse_x, mouse_y |-> mouse_y, ret |-> TRUE]

\* run(): running = self.handle_events(), in the first `limit` frames
HandleEventsUpTo(limit) ==
    /\ pc = "poll"
    /\ raised = "none"
    /\ frame < limit
    /\ \E batch \in Batches :
          LET r == handle_events(InputState, batch) IN
          /\ current_shape' = r.current_shape
          /\ base_hue' = r.base_hue
          /\ mouse_x' = r.mouse_x
          /\ mouse_y' = r.mouse_y
          /\ running' = r.ret
          /\ polled' = batch
    /\ frame' = frame + 1
    /\ pc' = "update"
    /\ UNCHANGED <<time_offset, layer_speeds, layer_rotations, visited,
                   draw_calls, todo, last_radius, last_draw, flips, raised>>

HandleEvents == HandleEventsUpTo(MaxFrames)

\* ------------------------------------------------- run(): clear, time
\* range(NUM_LAYERS): front to back
LayerRange_ascending == [j \in 1..NUM_LAYERS |-> j - 1]

\* range(NUM_LAYERS - 1, -1, -1)
LayerRange == [j \in 1..NUM_LAYERS |-> NUM_LAYERS - j]

\* a step of 0.2
AdvanceTime_tenfold(t) == t + 20

AdvanceTime(t) == t + 2

ClearAndAdvance ==
    /\ pc = "update"
    /\ visited' = <<>>
    /\ draw_calls' = <<>>
    /\ time_offset' = AdvanceTime(time_offset)
    /\ polled' = <<>>
    /\ todo' = LayerRange
    /\ pc' = "layers"
    /\ UNCHANGED <<current_shape, base_hue, mouse_x, mouse_y, layer_speeds,
                   layer_rotations, running, frame, last_radius, last_draw,
                   flips, raised>>

\* ----------------------------------------------------- get_shape_points
\* A corner is kept in polar form about the shape's centre: ang in tenths
\* of a degree, dist in thousandths of a pixel.  (x, y) = dist*(cos, sin)(ang).
Corner(a, d) == [ang |-> a, dist |-> d]

Corners(shape_type, radius) ==
    IF shape_type = "square" THEN
        LET half_size == (radius * 7) \div 10
            diag == (half_size * 1414) \div 1000
        IN  <<Corner(2250, diag), Corner(3150, diag),
              Corner(450, diag), Corner(1350, diag)>>
    ELSE IF shape_type = "triangle" THEN
        [j \in 1..3 |-> Corner((j - 1) * 1200, radius)]
    ELSE IF shape_type = "hexagon" THEN
        [j \in 1..6 |-> Corner((j - 1) * 600, radius)]
    ELSE IF shape_type = "octagon" THEN
        [j \in 1..8 |-> Corner((j - 1) * 450, radius)]
    ELSE \* "star"
        [j \in 1..10 |-> Corner((j - 1) * 360,
                                IF (j - 1) % 2 = 0 THEN radius
                                ELSE (radius * 5) \div 10)]

\* the rotation by `rotation` degrees adds to the corner's angle, the
\* translation moves its origin to the centre
get_shape_points(shape_type, center_x, center_y, radius, rotation) ==
    IF shape_type = "circle" THEN [none |-> TRUE, points |-> <<>>]
    ELSE LET corners == Corners(shape_type, radius) IN
         [none |-> FALSE,
          points |-> [j \in 1..Len(corners) |->
                        [cx |-> center_x, cy |-> center_y,
                         ang |-> (corners[j].ang + rotation) % 3600,
                         dist |-> corners[j].dist]]]

\* ------------------------------------------------- draw_wormhole_layer
\* math.sin on [0, pi], argument and pi in hundredths, result in thousandths
HalfWave(y) == (16 * y * (314 - y) * 1000) \div (5 * 314 * 314 - 4 * y * (314 - y))

Sin(x) ==
    LET r == x % 628
    IN  IF r < 314 THEN HalfWave(r) ELSE 0 - HalfWave(r - 314)

BaseRadius(layer_index) ==
    (MAX_RADIUS * 1000 * (NUM_LAYERS - layer_index)) \div NUM_LAYERS

\* the pulse without its 0.2 amplitude
Pulse_full(sine) == sine

Pulse(sine) == (sine * 2) \div 10

Radius(base_radius, pulse) == (base_radius * (1000 + pulse)) \div 1000

\* the threshold taken as 20
SkipLayer_eager(radius) == radius < 20000

\* the threshold taken as 0
SkipLayer_negative(radius) == radius < 0

SkipLayer(radius) == radius < 2000

CenterOffset(mouse, layer_index) ==
    ((mouse - WINDOW_SIZE \div 2) * layer_index * 30) \div NUM_LAYERS

Center(mouse, layer_index) ==
    100 * (WINDOW_SIZE \div 2) + CenterOffset(mouse, layer_index)

HueShift(layer_index, t) == (layer_index * 300) \div NUM_LAYERS + t

\* the hue without its wrap
CurrentHue_nowrap(bh, hue_shift) == bh + hue_shift

CurrentHue(bh, hue_shift) == (bh + hue_shift) % 1000

Brightness(sine) == 700 + (300 * sine) \div 1000

\* lines 144-154, with the rotation already updated
DrawShape(layer_index, radius, hue, value, rotation) ==
    LET shape_name == shapes[current_shape + 1]
        center_x == Center(mouse_x, layer_index)
        center_y == Center(mouse_y, layer_index)
        got == get_shape_points(shape_name, center_x, center_y, radius, rotation)
        circle == [kind |-> "circle", layer |-> layer_index, hue |-> hue,
                   value |-> value,
                   center |-> <<center_x \div 100, center_y \div 100>>,
                   radius |-> radius \div 1000, points |-> <<>>, width |-> 2]
        polygon == [kind |-> "polygon", layer |-> layer_index, hue |-> hue,
                    value |-> value, center |-> <<0, 0>>, radius |-> 0,
                    points |-> got.points, width |-> 2]
    IN  IF shape_name = "circle" THEN
            /\ last_draw' = circle
            /\ draw_calls' = Append(draw_calls,
                   [layer |-> layer_index, kind |-> "circle", npoints |-> 0])
        ELSE IF ~got.none /\ Len(got.points) > 2 THEN
            /\ last_draw' = polygon
            /\ draw_calls' = Append(draw_calls,
                   [layer |-> layer_index, kind |-> "polygon",
                    npoints |-> Len(got.points)])
        ELSE UNCHANGED <<last_draw, draw_calls>>

draw_wormhole_layer(layer_index) ==
    LET radius == Radius(BaseRadius(layer_index),
                         Pulse(Sin(time_offset * 3 + layer_index * 50)))
        hue == CurrentHue(base_hue, HueShift(layer_index, time_offset))
        value == Brightness(Sin(time_offset * 2 + layer_index * 30))
    IN  /\ visited' = Append(visited, layer_index)
        /\ last_radius' = radius
        /\ IF SkipLayer(radius) THEN
               UNCHANGED <<layer_rotations, last_draw, draw_calls, raised>>
           ELSE IF layer_index \notin DOMAIN layer_rotations THEN
               \* line 142 indexes the list out of range
               /\ raised' = "IndexError"
               /\ UNCHANGED <<layer_rotations, last_draw, draw_calls>>
           ELSE
               /\ layer_rotations' =
                     [layer_rotations EXCEPT ![layer_index] = @ + layer_speeds[layer_index]]
               /\ DrawShape(layer_index, radius, hue, value,
                            layer_rotations[layer_index] + layer_speeds[layer_index])
               /\ UNCHANGED raised
        /\ UNCHANGED <<current_shape, base_hue, time_offset, mouse_x, mouse_y,
                       layer_speeds>>

\* ---------------------------------------------------- run(): the loop
DrawLayer ==
    /\ pc = "layers"
    /\ raised = "none"
    /\ todo # <<>>
    /\ draw_wormhole_layer(Head(todo))
    /\ todo' = Tail(todo)
    /\ UNCHANGED <<running, pc, polled, frame, flips>>

\* the loop test ignoring the flag
LoopTest_ignore(r) == "poll"

\* the test of `while running`, after pygame.display.flip() and clock.tick(FPS)
LoopTest(r) == IF r THEN "poll" ELSE "quit"

\* draw_ui(), pygame.display.flip(), clock.tick(FPS) and the loop test
Present ==
    /\ pc = "layers"
    /\ raised = "none"
    /\ todo = <<>>
    /\ flips' = flips + 1
    /\ pc' = LoopTest(running)
    /\ UNCHANGED <<current_shape, base_hue, time_offset, mouse_x, mouse_y,
                   layer_speeds, layer_rotations, running, polled, frame,
                   visited, draw_calls, todo, last_radius, last_draw, raised>>

\* pygame.quit()
PygameQuit ==
    /\ pc = "quit"
    /\ pc' = "done"
    /\ UNCHANGED <<current_shape, base_hue, time_offset, mouse_x, mouse_y,
                   layer_speeds, layer_rotations, running, polled, frame,
                   visited, draw_calls, todo, last_radius, last_draw, flips,
                   raised>>

Next == HandleEvents \/ ClearAndAdvance \/ DrawLayer \/ Present \/ PygameQuit

Spec == Init /\ [][Next]_vars

\* The loop over a shorter run, for the properties of progress: the single
\* thread of run() always takes its next step.
HandleEventsFair == HandleEventsUpTo(MaxFairFrames)

NextFair == HandleEventsFair \/ ClearAndAdvance \/ DrawLayer \/ Present \/ PygameQuit

FairSpec == Init /\ [][NextFair]_vars /\ WF_vars(NextFair)

\* ------------------------------- draw_wormhole_layer called on its own
\* The visualizer as it stands when a frame's layers are about to be drawn,
\* k frames having been rendered before, and any layer index as argument.
InitUnit ==
    /\ \E k \in 0..MaxUnitFrames :
          /\ time_offset = 2 * (k + 1)
          /\ frame = k + 1
          /\ flips = k
          /\ layer_rotations = [i \in 0..(NUM_LAYERS - 1) |-> k * LayerSpeed(i)]
    /\ current_shape \in 0..(Len(shapes) - 1)
    /\ base_hue \in {500, 0, 330, 660}
    /\ \E p \in MousePositions \cup {<<WINDOW_SIZE \div 2, WINDOW_SIZE \div 2>>} :
          mouse_x = p[1] /\ mouse_y = p[2]
    /\ layer_speeds = [i \in 0..(NUM_LAYERS - 1) |-> LayerSpeed(i)]
    /\ polled = <<>>
    /\ visited = <<>>
    /\ draw_calls = <<>>
    /\ todo = <<>>
    /\ last_radius = 0
    /\ last_draw = NoDraw
    /\ raised = "none"
    /\ running = TRUE
    /\ pc = "unit"

UnitCall ==
    /\ pc = "unit"
    /\ \E layer_index \in 0..MaxLayerArg : draw_wormhole_layer(layer_index)
    /\ pc' = "unit_done"
    /\ UNCHANGED <<running, polled, frame, todo, flips>>

NextUnit == UnitCall

SpecUnit == InitUnit /\ [][NextUnit]_vars

\* =================================================== properties
IsQuit(e) == e.type = "QUIT"
IsKey(e, k) == e.type = "KEYDOWN" /\ e.key = k
IsMotion(e) == e.type = "MOUSEMOTION"
IsHueKey(e) == IsKey(e, "K_r") \/ IsKey(e, "K_g") \/ IsKey(e, "K_b")

\* the events of a batch that come before its first quit
RECURSIVE BeforeQuit(_)
BeforeQuit(evs) ==
    IF evs = <<>> \/ IsQuit(Head(evs)) THEN <<>>
    ELSE <<Head(evs)>> \o BeforeQuit(Tail(evs))

\* every event of a batch applied in order, none left out
RECURSIVE ApplyAll(_, _)
ApplyAll(st, evs) ==
    IF evs = <<>> THEN st
    ELSE ApplyAll(Dispatch(st, Head(evs)), Tail(evs))

NumSpaces(evs) == Cardinality({j \in 1..Len(evs) : IsKey(evs[j], "K_SPACE")})

\* a step of run() that polls and handles the events of a frame
HandleStep == pc = "poll" /\ pc' = "update"

\* a step of the render part of a frame
RenderStep == pc \in {"update", "layers"}

InputStateNext ==
    [current_shape |-> current_shape', base_hue |-> base_hue',
     mouse_x |-> mouse_x', mouse_y |-> mouse_y', ret |-> TRUE]

\* frames whose time advance has been made
FramesAdvanced == IF pc = "update" THEN frame - 1 ELSE frame

\* frames in which layer i has been passed to draw_wormhole_layer
FramesDrawn(i) ==
    IF pc = "update" THEN frame - 1
    ELSE IF pc = "layers" /\ (\A j \in 1..Len(visited) : visited[j] # i) THEN frame - 1
    ELSE frame

\* C1: in every frame the layers are passed to draw_wormhole_layer in the
\* order 29, 28, ..., 0: the j-th call of a frame is for layer 30 - j, and a
\* frame that has been presented has made exactly 30 calls.
C1_DescendingOrder ==
    /\ Len(visited) <= 30
    /\ \A j \in 1..Len(visited) : visited[j] = 30 - j
    /\ (frame > 0 /\ flips = frame) => Len(visited) = 30

C1_Witness == frame = 2 /\ flips = 2 /\ Len(visited) = 30 /\ visited[30] = 0

\* C2: layer_speeds[i] is always i*0.5 and layer_rotations[i] is i*0.5 times
\* the number of frames in which layer i has been drawn, whatever events
\* were handled; nothing else changes it.
C2_RotationAccumulates ==
    \A i \in 0..29 :
        /\ layer_speeds[i] = 5 * i
        /\ layer_rotations[i] = FramesDrawn(i) * 5 * i

C2_Witness ==
    /\ pc = "done" /\ frame = 3
    /\ layer_rotations[29] = 435
    /\ current_shape # 0 /\ base_hue # 500 /\ mouse_x # 200

\* C3: a call of draw_wormhole_layer that computes a radius below 2 emits
\* no draw call, changes no field of the visualizer and raises nothing.
C3_SkipNoEffect ==
    [][(visited' # visited /\ last_radius' < 2000) =>
          /\ draw_calls' = draw_calls
          /\ last_draw' = last_draw
          /\ fields' = fields
          /\ raised' = "none"]_vars

C3_Witness ==
    /\ pc = "unit_done" /\ Len(visited) = 1
    /\ last_radius < 2000
    /\ draw_calls = <<>> /\ raised = "none"

\* C4 as stated: every event of the polled batch has been applied to the
\* state when handling ends, and a quit in the batch clears the running flag.
C4_AllApplied ==
    [][HandleStep =>
          /\ InputStateNext = ApplyAll(InputState, polled')
          /\ running' = (\A j \in 1..Len(polled') : ~IsQuit(polled'[j]))]_vars

\* C4 amended: every event of the polled batch that comes before the first
\* quit of the batch has been applied, in order, when handling ends; the
\* quit clears the running flag and the events after it are not applied.
C4_AppliedUpToQuit ==
    [][HandleStep =>
          /\ InputStateNext = ApplyAll(InputState, BeforeQuit(polled'))
          /\ running' = (\A j \in 1..Len(polled') : ~IsQuit(polled'[j]))]_vars

C4_Witness ==
    /\ pc = "update" /\ Len(polled) = 2
    /\ IsKey(polled[1], "K_g") /\ IsQuit(polled[2])
    /\ base_hue = 330 /\ ~running

\* C5: a polled quit clears the running flag and nothing else does; the
\* frame in which it was polled is completed in full (time advanced, 30
\* layers passed, display flipped) before the loop is left; once the flag is
\* cleared no further frame starts and the loop reaches its end; the loop is
\* left only with the flag cleared.
C5_CooperativeQuit ==
    /\ [][HandleStep =>
            (running' = (\A j \in 1..Len(polled') : ~IsQuit(polled'[j])))]_vars
    /\ [][(running' # running) => HandleStep]_vars
    /\ [][(~running) => (frame' = frame /\ pc' # "poll")]_vars
    /\ [](pc \in {"quit", "done"} =>
            /\ ~running
            /\ flips = frame
            /\ time_offset = 2 * frame
            /\ Len(visited) = 30 /\ Len(draw_calls) = 30)
    /\ ((~running) ~> (pc = "done"))

C5_Witness == pc = "done" /\ ~running /\ frame = 2 /\ flips = 2

\* C6: time_offset is 0.02 times the number of frames whose time advance
\* has been made; it is 0 at the start and 0.02*k all through the drawing
\* of the layers of frame k, whatever events were handled.
C6_TimeOffset ==
    /\ time_offset = 2 * FramesAdvanced
    /\ (pc = "layers") => (time_offset = 2 * frame /\ frame > 0)
    /\ (frame = 0) => (time_offset = 0)

C6_Witness ==
    /\ pc = "layers" /\ frame = 3 /\ Len(visited) = 1
    /\ time_offset = 6 /\ base_hue = 660 /\ current_shape = 2

C8_HueRange ==
    /\ base_hue \in {500, 0, 330, 660}
    /\ base_hue >= 0 /\ base_hue < 1000
    /\ (last_draw.kind # "none") => (last_draw.hue >= 0 /\ last_draw.hue < 1000)
    /\ (pc \in {"layers", "unit_done"} /\ draw_calls # <<>>) =>
          \E n \in 0..1 :
             last_draw.hue + 1000 * n = base_hue + 10 * last_draw.layer + time_offset

C8_Witness ==
    /\ pc = "layers" /\ draw_calls # <<>>
    /\ base_hue + 10 * last_draw.layer + time_offset >= 1000
    /\ last_draw.hue < 1000

\* C9: handling events leaves time_offset, layer_rotations and layer_speeds
\* alone, changes current_shape only if a next-shape event was polled,
\* base_hue only if a set-hue event was polled and the mouse position only
\* if a pointer-moved event was polled; the render steps leave
\* current_shape, base_hue, mouse_x, mouse_y and layer_speeds alone.
C9_DisjointState ==
    [][/\ HandleStep =>
            /\ UNCHANGED <<time_offset, layer_rotations, layer_speeds>>
            /\ (\A j \in 1..Len(polled') : ~IsKey(polled'[j], "K_SPACE"))
                  => UNCHANGED current_shape
            /\ (\A j \in 1..Len(polled') : ~IsHueKey(polled'[j]))
                  => UNCHANGED base_hue
            /\ (\A j \in 1..Len(polled') : ~IsMotion(polled'[j]))
                  => UNCHANGED <<mouse_x, mouse_y>>
       /\ RenderStep =>
            UNCHANGED <<current_shape, base_hue, mouse_x, mouse_y, layer_speeds>>
      ]_vars

C9_Witness ==
    /\ pc = "update" /\ Len(polled) = 2
    /\ IsKey(polled[1], "K_SPACE") /\ IsKey(polled[2], "K_SPACE")
    /\ current_shape = 3 /\ base_hue = 330 /\ mouse_x = 0
    /\ time_offset = 4 /\ layer_rotations[29] = 290

\* C10: the radius of every layer drawn by run() is at least 8, so no layer
\* is skipped: every call of draw_wormhole_layer emits one draw call for its
\* layer, a circle when the shape is circle and otherwise a polygon of at
\* least 3 points, and a presented frame holds exactly 30 draw calls.
C10_NoSkip ==
    /\ (visited # <<>>) => (last_radius >= 8000)
    /\ Len(draw_calls) = Len(visited)
    /\ \A j \in 1..Len(draw_calls) : draw_calls[j].layer = visited[j]
    /\ (pc # "update") =>
          \A j \in 1..Len(draw_calls) :
             IF current_shape = 0
             THEN draw_calls[j].kind = "circle"
             ELSE draw_calls[j].kind = "polygon" /\ draw_calls[j].npoints >= 3
    /\ (frame > 0 /\ flips = frame) => Len(draw_calls) = 30

C10_Witness ==
    /\ flips = frame /\ frame = 3 /\ Len(draw_calls) = 30
    /\ current_shape = 5 /\ draw_calls[30].npoints = 10
    /\ draw_calls[1].layer = 29 /\ draw_calls[30].kind = "polygon"
    /\ last_radius >= 8000

====
